---- MODULE Spec2Model ----
(***************************************************************************)
(* Certificate identity extraction and peer verification of pyxmpp2       *)
(* (pyxmpp2/cert.py): CertificateData.get_jids, verify_server,            *)
(* verify_jid_against_common_name, verify_jid_against_srv_name and        *)
(* verify_client.                                                         *)
(*                                                                         *)
(* Text values (Python unicode objects) are sequences of one-character    *)
(* strings, so that startswith, slicing, "in" and case folding are        *)
(* computed and not assumed.  A Python value that may be None carries a   *)
(* "kind" tag.  A call's outcome records the exception it raised, if any. *)
(***************************************************************************)
EXTENDS Integers, Sequences, FiniteSets, TLC

VARIABLES cert, call, result, ssl_socket, decoding, cert_asn1_type, threads

vars == <<cert, call, result, ssl_socket, decoding, cert_asn1_type, threads>>

-----------------------------------------------------------------------------
(* Bounds *)

\* Size of a certificate: name strings in all of its lists, plus one for
\* each list that is present but empty.
MaxNames == 3

-----------------------------------------------------------------------------
(* Text helpers (Python unicode operations used by cert.py) *)

Contains(s, c) == \E i \in 1..Len(s) : s[i] = c

\* s.startswith(p)
StartsWith(s, p) == Len(s) >= Len(p) /\ SubSeq(s, 1, Len(p)) = p

\* s[n:]
SliceFrom(s, n) == SubSeq(s, n + 1, Len(s))

\* position of the first occurrence of c in s (0 when absent)
Find(s, c) ==
    IF Contains(s, c)
    THEN CHOOSE i \in 1..Len(s) : s[i] = c /\ \A j \in 1..(i - 1) : s[j] # c
    ELSE 0

LowerChar(c) ==
    CASE c = "A" -> "a"
      [] c = "B" -> "b"
      [] c = "U" -> "u"
      [] c = "V" -> "v"
      [] OTHER -> c

LowerStr(s) == [i \in 1..Len(s) |-> LowerChar(s[i])]

\* x in lst
InSeq(x, lst) == \E i \in 1..Len(lst) : lst[i] = x

-----------------------------------------------------------------------------
(* The JID value type (pyxmpp2/jid.py, a dependency of cert.py) *)

NullJID == [local |-> <<>>, domain |-> <<>>, resource |-> <<>>]

\* JID(text): "local@domain/resource"; the local part and the domain are
\* case-folded, the resource is not.  ok = FALSE stands for JIDError.
JID(text) ==
    LET slash == Find(text, "/")
        head  == IF slash = 0 THEN text ELSE SubSeq(text, 1, slash - 1)
        res   == IF slash = 0 THEN <<>> ELSE SliceFrom(text, slash)
        at    == Find(head, "@")
        loc   == IF at = 0 THEN <<>> ELSE SubSeq(head, 1, at - 1)
        dom   == IF at = 0 THEN head ELSE SliceFrom(head, at)
        bad   == \/ dom = <<>>
                 \/ Contains(dom, "@")
                 \/ (at # 0 /\ loc = <<>>)
                 \/ (slash # 0 /\ res = <<>>)
    IN  IF bad
        THEN [ok |-> FALSE, jid |-> NullJID]
        ELSE [ok |-> TRUE,
              jid |-> [local |-> LowerStr(loc), domain |-> LowerStr(dom),
                       resource |-> res]]

\* are_domains_equal(domain1, domain2): case-insensitive comparison
are_domains_equal(domain1, domain2) == LowerStr(domain1) = LowerStr(domain2)

-----------------------------------------------------------------------------
(* CertificateData *)

\* dict.get(key, [])
Get(d, key) == IF key \in DOMAIN d THEN d[key] ELSE <<>>

None == [kind |-> "None", list |-> <<>>]
List(l) == [kind |-> "list", list |-> l]

\* CertificateData.__init__
CertificateData ==
    [validated |-> FALSE, subject_name |-> None, not_after |-> None,
     common_names |-> None, alt_names |-> <<>>]

\* truth value of an optional list
Truthy(v) == v.kind = "list" /\ v.list # <<>>

-----------------------------------------------------------------------------
(* CertificateData.get_jids *)

\* Faulty variant: the common names are candidates besides the alt-names.
get_jids_addrs_with_cn(c) ==
    LET cns == IF Truthy(c.common_names)
               THEN SelectSeq(c.common_names.list,
                        LAMBDA addr : ~Contains(addr, "@") /\ ~Contains(addr, "/"))
               ELSE <<>>
    IN  Get(c.alt_names, "XmppAddr") \o Get(c.alt_names, "DNS") \o cns

\* the candidate address strings (the if / elif / else before the loop)
get_jids_addrs(c) ==
    IF "XmppAddr" \in DOMAIN c.alt_names \/ "DNS" \in DOMAIN c.alt_names
    THEN Get(c.alt_names, "XmppAddr") \o Get(c.alt_names, "DNS")
    ELSE IF Truthy(c.common_names)
    THEN SelectSeq(c.common_names.list,
                   LAMBDA addr : ~Contains(addr, "@") /\ ~Contains(addr, "/"))
    ELSE <<>>

\* the for loop: a JIDError is caught and the address skipped
RECURSIVE get_jids_loop(_, _, _)
get_jids_loop(addrs, i, res) ==
    IF i > Len(addrs) THEN [exc |-> "", value |-> res]
    ELSE LET p == JID(addrs[i])
         IN  IF ~p.ok THEN get_jids_loop(addrs, i + 1, res)
             ELSE IF ~InSeq(p.jid, res)
             THEN get_jids_loop(addrs, i + 1, Append(res, p.jid))
             ELSE get_jids_loop(addrs, i + 1, res)

\* Faulty variant: the test "jid not in result" is left out.
get_jids_no_dedup(c) ==
    LET addrs == get_jids_addrs(c)
        good  == SelectSeq(addrs, LAMBDA addr : JID(addr).ok)
    IN  [exc |-> "", value |-> [i \in 1..Len(good) |-> JID(good[i]).jid]]

\* Faulty variant: the JIDError of a malformed address is not caught.
get_jids_no_except(c) ==
    LET addrs == get_jids_addrs(c)
    IN  IF \E k \in 1..Len(addrs) : ~JID(addrs[k]).ok
        THEN [exc |-> "JIDError", value |-> <<>>]
        ELSE get_jids_loop(addrs, 1, <<>>)

get_jids(c) == get_jids_loop(get_jids_addrs(c), 1, <<>>)

-----------------------------------------------------------------------------
(* CertificateData.verify_server and its two helpers *)

Return(v) == [exc |-> "", value |-> v]
Raise(e) == [exc |-> e, value |-> FALSE]

\* a local variable that may not have been assigned yet
Unbound == [bound |-> FALSE, jid |-> NullJID]
Bound(j) == [bound |-> TRUE, jid |-> j]

RECURSIVE common_name_loop(_, _, _)
common_name_loop(names, i, jid) ==
    IF i > Len(names) THEN FALSE
    ELSE LET cn_jid == JID(names[i])
         IN  IF ~cn_jid.ok THEN common_name_loop(names, i + 1, jid)
             ELSE IF jid = cn_jid.jid THEN TRUE
             ELSE common_name_loop(names, i + 1, jid)

verify_jid_against_common_name(c, jid) ==
    IF ~Truthy(c.common_names) THEN FALSE
    ELSE common_name_loop(c.common_names.list, 1, jid)

RECURSIVE srv_name_loop(_, _, _, _)
srv_name_loop(srvs, i, srv_prefix, jid) ==
    IF i > Len(srvs) THEN FALSE
    ELSE IF ~StartsWith(srvs[i], srv_prefix)
    THEN srv_name_loop(srvs, i + 1, srv_prefix, jid)
    ELSE LET srv_jid == JID(SliceFrom(srvs[i], Len(srv_prefix)))
         IN  IF ~srv_jid.ok THEN srv_name_loop(srvs, i + 1, srv_prefix, jid)
             ELSE IF srv_jid.jid = jid THEN TRUE
             ELSE srv_name_loop(srvs, i + 1, srv_prefix, jid)

verify_jid_against_srv_name(c, jid, srv_type) ==
    LET srv_prefix == <<"_">> \o srv_type \o <<".">>
    IN  srv_name_loop(Get(c.alt_names, "SRV"), 1, srv_prefix, jid)

\* the for loop of verify_server over DNS + XmppAddr: whether it returned
\* True, and the local variable jid as the loop leaves it
RECURSIVE verify_server_loop(_, _, _, _)
verify_server_loop(names, i, jid, server_jid) ==
    IF i > Len(names) THEN [matched |-> FALSE, jid |-> jid]
    ELSE LET p == JID(names[i])
         IN  IF ~p.ok THEN verify_server_loop(names, i + 1, jid, server_jid)
             ELSE IF p.jid = server_jid
             THEN [matched |-> TRUE, jid |-> Bound(p.jid)]
             ELSE verify_server_loop(names, i + 1, Bound(p.jid), server_jid)

\* Faulty variant: the common names are consulted whatever alt_names holds.
verify_server_cn_always(c, server_name, srv_type) ==
    LET server_jid == JID(server_name)
        loop == verify_server_loop(
                    Get(c.alt_names, "DNS") \o Get(c.alt_names, "XmppAddr"),
                    1, Unbound, server_jid.jid)
    IN  IF ~server_jid.ok THEN Raise("JIDError")
        ELSE IF verify_jid_against_common_name(c, server_jid.jid) THEN Return(TRUE)
        ELSE IF loop.matched THEN Return(TRUE)
        ELSE IF srv_type # <<>>
        THEN IF ~loop.jid.bound THEN Raise("UnboundLocalError")
             ELSE Return(verify_jid_against_srv_name(c, loop.jid.jid, srv_type))
        ELSE Return(FALSE)

verify_server(c, server_name, srv_type) ==
    LET server_jid == JID(server_name)
    IN  IF ~server_jid.ok THEN Raise("JIDError")
        ELSE IF /\ "XmppAddr" \notin DOMAIN c.alt_names
                /\ "DNS" \notin DOMAIN c.alt_names
                /\ "SRV" \notin DOMAIN c.alt_names
        THEN Return(verify_jid_against_common_name(c, server_jid.jid))
        ELSE LET loop == verify_server_loop(
                             Get(c.alt_names, "DNS") \o Get(c.alt_names, "XmppAddr"),
                             1, Unbound, server_jid.jid)
             IN  IF loop.matched THEN Return(TRUE)
                 ELSE IF srv_type # <<>>
                 THEN IF ~loop.jid.bound THEN Raise("UnboundLocalError")
                      ELSE Return(verify_jid_against_srv_name(c, loop.jid.jid, srv_type))
                 ELSE Return(FALSE)

-----------------------------------------------------------------------------
(* CertificateData.verify_client *)

NoneJID == [kind |-> "None", jid |-> NullJID]
FalseJID == [kind |-> "False", jid |-> NullJID]
SomeJID(j) == [kind |-> "JID", jid |-> j]

\* for domain in domains: if are_domains_equal(jid.domain, domain)
RECURSIVE domains_loop(_, _, _)
domains_loop(jid, domains, k) ==
    IF k > Len(domains) THEN FALSE
    ELSE IF are_domains_equal(jid.domain, domains[k]) THEN TRUE
    ELSE domains_loop(jid, domains, k + 1)

\* for jid in jids: ... return jid; after the loop: return None
RECURSIVE client_jids_loop(_, _, _)
client_jids_loop(jids, i, domains) ==
    IF i > Len(jids) THEN NoneJID
    ELSE IF domains_loop(jids[i], domains, 1) THEN SomeJID(jids[i])
    ELSE client_jids_loop(jids, i + 1, domains)

\* Faulty variant: the domains are tested before the requested client_jid.
verify_client_domains_first(c, client_jid, domains) ==
    LET jids == SelectSeq(get_jids(c).value, LAMBDA jid : jid.local # <<>>)
    IN  IF jids = <<>> THEN Return(FalseJID)
        ELSE IF domains.kind = "list"
        THEN Return(client_jids_loop(jids, 1, domains.list))
        ELSE IF client_jid.kind # "None" /\ InSeq(client_jid.jid, jids)
        THEN Return(client_jid)
        ELSE Return(SomeJID(jids[1]))

\* Faulty variant: the two loops are nested the other way round, so that the
\* first entry of domains that some JID matches decides.
verify_client_domain_major(c, client_jid, domains) ==
    LET jids == SelectSeq(get_jids(c).value, LAMBDA jid : jid.local # <<>>)
        hit(k) == { i \in 1..Len(jids) :
                      are_domains_equal(jids[i].domain, domains.list[k]) }
        ks == { k \in 1..Len(domains.list) : hit(k) # {} }
        k0 == CHOOSE k \in ks : \A m \in ks : k <= m
        i0 == CHOOSE i \in hit(k0) : \A m \in hit(k0) : i <= m
    IN  IF jids = <<>> THEN Return(FalseJID)
        ELSE IF client_jid.kind # "None" /\ InSeq(client_jid.jid, jids)
        THEN Return(client_jid)
        ELSE IF domains.kind = "None" THEN Return(SomeJID(jids[1]))
        ELSE IF ks = {} THEN Return(NoneJID)
        ELSE Return(SomeJID(jids[i0]))

\* Faulty variant: without domains the last JID is returned, not the first.
verify_client_last(c, client_jid, domains) ==
    LET jids == SelectSeq(get_jids(c).value, LAMBDA jid : jid.local # <<>>)
    IN  IF jids = <<>> THEN Return(FalseJID)
        ELSE IF client_jid.kind # "None" /\ InSeq(client_jid.jid, jids)
        THEN Return(client_jid)
        ELSE IF domains.kind = "None" THEN Return(SomeJID(jids[Len(jids)]))
        ELSE Return(client_jids_loop(jids, 1, domains.list))

\* Faulty variant: the JIDs without a local part are not filtered out.
verify_client_unfiltered(c, client_jid, domains) ==
    LET jids == get_jids(c).value
    IN  IF jids = <<>> THEN Return(FalseJID)
        ELSE IF client_jid.kind # "None" /\ InSeq(client_jid.jid, jids)
        THEN Return(client_jid)
        ELSE IF domains.kind = "None" THEN Return(SomeJID(jids[1]))
        ELSE Return(client_jids_loop(jids, 1, domains.list))

verify_client(c, client_jid, domains) ==
    LET got  == get_jids(c)
        jids == SelectSeq(got.value, LAMBDA jid : jid.local # <<>>)
    IN  IF got.exc # "" THEN [exc |-> got.exc, value |-> NoneJID]
        ELSE IF jids = <<>> THEN Return(FalseJID)
        ELSE IF client_jid.kind # "None" /\ InSeq(client_jid.jid, jids)
        THEN Return(client_jid)
        ELSE IF domains.kind = "None" THEN Return(SomeJID(jids[1]))
        ELSE Return(client_jids_loop(jids, 1, domains.list))

-----------------------------------------------------------------------------
(* ASN.1 values as the DER decoder hands them to cert.py *)

\* An octet is written as the ASCII character it encodes, or "x00", "xFF".
\* bytes.decode("utf-8"): the octet xFF never occurs in UTF-8
DecodeUTF8(octets) ==
    IF Contains(octets, "xFF") THEN [exc |-> "UnicodeError", value |-> <<>>]
    ELSE [exc |-> "", value |-> octets]

\* bytes.decode("utf-16-be"): two octets a character
DecodeUTF16BE(octets) ==
    IF Len(octets) % 2 # 0 THEN [exc |-> "UnicodeError", value |-> <<>>]
    ELSE [exc |-> "",
          value |-> [i \in 1..(Len(octets) \div 2) |->
                        IF octets[2 * i - 1] = "x00" THEN octets[2 * i]
                        ELSE "?"]]

\* _decode_asn1_string(data)
decode_asn1_string(data) ==
    IF data.type = "BMPString" THEN DecodeUTF16BE(data.octets)
    ELSE DecodeUTF8(data.octets)

DN_OIDS ==
    ( <<2, 5, 4, 41>> :> "Name" ) @@ ( <<2, 5, 4, 4>> :> "Surname" ) @@
    ( <<2, 5, 4, 42>> :> "GivenName" ) @@ ( <<2, 5, 4, 43>> :> "Initials" ) @@
    ( <<2, 5, 4, 3>> :> "CommonName" ) @@ ( <<2, 5, 4, 7>> :> "LocalityName" ) @@
    ( <<2, 5, 4, 8>> :> "StateOrProvinceName" ) @@
    ( <<2, 5, 4, 10>> :> "OrganizationName" ) @@
    ( <<2, 5, 4, 11>> :> "OrganizationalUnitName" ) @@
    ( <<2, 5, 4, 12>> :> "Title" ) @@ ( <<2, 5, 4, 6>> :> "CountryName" )

XMPPADDR_OID == <<1, 3, 6, 1, 5, 5, 7, 8, 5>>
SRVNAME_OID == <<1, 3, 6, 1, 5, 5, 7, 8, 7>>
SUBJECT_ALT_NAME_OID == <<2, 5, 29, 17>>

\* the grammar template Certificate(), and the class attribute before it is built
NoTemplate == [kind |-> "None", id |-> 0]
Certificate(id) == [kind |-> "Certificate", id |-> id]

-----------------------------------------------------------------------------
(* ASN1CertificateData: the full decoder *)

\* the object cls() with the attributes a decoder has set
WithFields(c, validated, subject_name, not_after, common_names, alt_names) ==
    [validated |-> validated, subject_name |-> subject_name,
     not_after |-> not_after, common_names |-> common_names,
     alt_names |-> alt_names]

\* an append that keeps each list free of duplicates
AppendTo_unique(d, key, value) ==
    [k \in DOMAIN d \cup {key} |->
        IF k = key /\ ~InSeq(value, Get(d, key)) THEN Append(Get(d, key), value)
        ELSE Get(d, k)]

\* self.alt_names[key].append(value) on a defaultdict(list)
AppendTo(d, key, value) ==
    [k \in DOMAIN d \cup {key} |->
        IF k = key THEN Append(Get(d, key), value) ELSE d[k]]

\* _decode_subject, the loop over the pairs of one RDN:
\* acc = [rdn: the pairs kept, cns: the common names so far]
RECURSIVE decode_subject_pairs(_, _, _)
decode_subject_pairs(rdns, i, acc) ==
    IF i > Len(rdns) THEN acc
    ELSE LET val_type == rdns[i].type
             value    == decode_asn1_string(rdns[i].value)
         IN  IF val_type \notin DOMAIN DN_OIDS
             THEN decode_subject_pairs(rdns, i + 1, acc)
             ELSE IF value.exc # ""
             THEN decode_subject_pairs(rdns, i + 1, acc)
             ELSE decode_subject_pairs(rdns, i + 1,
                      [rdn |-> Append(acc.rdn, <<DN_OIDS[val_type], value.value>>),
                       cns |-> IF DN_OIDS[val_type] = "CommonName"
                               THEN Append(acc.cns, value.value) ELSE acc.cns])

\* _decode_subject, the loop over the RDNs:
\* acc = [subject_name, common_names]
RECURSIVE decode_subject_rdns(_, _, _)
decode_subject_rdns(subject, i, acc) ==
    IF i > Len(subject) THEN acc
    ELSE LET one == decode_subject_pairs(subject[i], 1,
                        [rdn |-> <<>>, cns |-> acc.common_names])
         IN  decode_subject_rdns(subject, i + 1,
                 [subject_name |-> Append(acc.subject_name, one.rdn),
                  common_names |-> one.cns])

\* _decode_subject collecting the common names last first
decode_subject_reversed(subject) ==
    LET d == decode_subject_rdns(subject, 1,
                 [subject_name |-> <<>>, common_names |-> <<>>])
        n == Len(d.common_names)
    IN  [subject_name |-> d.subject_name,
         common_names |-> [i \in 1..n |-> d.common_names[n + 1 - i]]]

\* _decode_subject(subject): sets subject_name and common_names
decode_subject(subject) ==
    decode_subject_rdns(subject, 1, [subject_name |-> <<>>, common_names |-> <<>>])

\* _decode_validity(validity): not_after has become a str when isinstance
\* looks at it, so the two-digit-year format is used for both kinds of time,
\* and strptime raises ValueError on a GeneralizedTime text.
decode_validity(validity) ==
    LET not_after == validity.notAfter
    IN  IF not_after.type = "utcTime"
        THEN [exc |-> "", value |-> [kind |-> "datetime", list |-> not_after.text]]
        ELSE [exc |-> "ValueError", value |-> None]

\* _decode_alt_names(alt_names): the loop over the GeneralNames; an exception
\* of _decode_asn1_string is not caught
RECURSIVE decode_alt_names(_, _, _)
decode_alt_names(self_alt_names, alt_names, i) ==
    IF i > Len(alt_names) THEN [exc |-> "", value |-> self_alt_names]
    ELSE LET tname == alt_names[i].name
             comp  == alt_names[i]
             key   == CASE tname = "dNSName" -> "DNS"
                        [] tname = "uniformResourceIdentifier" -> "URI"
                        [] tname = "otherName" /\ comp.type_id = XMPPADDR_OID -> "XmppAddr"
                        [] tname = "otherName" /\ comp.type_id = SRVNAME_OID -> "SRVName"
                        [] OTHER -> ""
             value == decode_asn1_string(
                          IF tname = "otherName"
                          THEN [type |-> IF comp.type_id = XMPPADDR_OID
                                         THEN "UTF8String" ELSE "IA5String",
                                octets |-> comp.value.octets]
                          ELSE comp.value)
         IN  IF key = "" THEN decode_alt_names(self_alt_names, alt_names, i + 1)
             ELSE IF value.exc # "" THEN [exc |-> value.exc, value |-> self_alt_names]
             ELSE decode_alt_names(AppendTo(self_alt_names, key, value.value),
                                   alt_names, i + 1)

\* from_der_data, the loop over the extensions
RECURSIVE decode_extensions(_, _, _)
decode_extensions(self_alt_names, extensions, i) ==
    IF i > Len(extensions) THEN [exc |-> "", value |-> self_alt_names]
    ELSE IF extensions[i].extnID # SUBJECT_ALT_NAME_OID
    THEN decode_extensions(self_alt_names, extensions, i + 1)
    ELSE LET one == decode_alt_names(self_alt_names, extensions[i].extnValue, 1)
         IN  IF one.exc # "" THEN one
             ELSE decode_extensions(one.value, extensions, i + 1)

\* der_decoder.decode(data, asn1Spec = template)[0]: octets that are no DER
\* certificate raise; without a template the decoder yields no Certificate
\* value, so that getComponentByName('tbsCertificate') finds nothing
der_decode(data, asn1Spec) ==
    IF ~data.wellformed THEN [exc |-> "PyAsn1Error", value |-> data]
    ELSE IF asn1Spec.kind # "Certificate" THEN [exc |-> "PyAsn1Error", value |-> data]
    ELSE [exc |-> "", value |-> data]

\* from_der_data(data), given the template cls._cert_asn1_type it decodes with
from_der_data(data, asn1Spec) ==
    LET cert_tree == der_decode(data, asn1Spec)
        subject   == decode_subject(data.subject)
        validity  == decode_validity(data.validity)
        alts      == decode_extensions(<<>>, data.extensions, 1)
    IN  IF cert_tree.exc # "" THEN [exc |-> cert_tree.exc, value |-> CertificateData]
        ELSE IF validity.exc # "" THEN [exc |-> validity.exc, value |-> CertificateData]
        ELSE IF alts.exc # "" THEN [exc |-> alts.exc, value |-> CertificateData]
        ELSE [exc |-> "",
              value |-> WithFields(CertificateData, FALSE,
                            List(subject.subject_name), validity.value,
                            List(subject.common_names), alts.value)]

\* the TLS session object: whether it has getpeercert at all (PyPy has
\* not), the certificate the peer presented, and whether the TLS library
\* validated its chain
NoX509 ==
    [present |-> FALSE, wellformed |-> FALSE, subject |-> <<>>,
     validity |-> [notAfter |-> [type |-> "utcTime", text |-> <<>>]],
     extensions |-> <<>>]

\* ssl_socket.getpeercert(True): the DER octets, None without a certificate;
\* AttributeError without the method
getpeercert_binary(sock) ==
    IF ~sock.has_getpeercert THEN [exc |-> "AttributeError", value |-> NoX509]
    ELSE [exc |-> "", value |-> sock.x509]

\* the names the TLS library gives to the attributes and GeneralNames
PeerCertAttribute(oid) ==
    CASE oid = <<2, 5, 4, 3>> -> "commonName"
      [] oid = <<2, 5, 4, 10>> -> "organizationName"
      [] OTHER -> "1.2.840.113549.1.9.1"

PeerCertGeneralName(gn) ==
    CASE gn.name = "dNSName" -> <<"DNS", gn.value.octets>>
      [] gn.name = "uniformResourceIdentifier" -> <<"URI", gn.value.octets>>
      [] gn.name = "rfc822Name" -> <<"email", gn.value.octets>>
      [] OTHER -> <<"othername", <<"<", "?", ">">> >>

\* ssl_socket.getpeercert(): None without a certificate, the empty dict for a
\* certificate that was not validated, else the TLS library's own decoding:
\* the values are byte strings, UTF-8 where the library could convert them
getpeercert(sock) ==
    LET x == sock.x509
        octets(v) == IF decode_asn1_string(v).exc = ""
                     THEN decode_asn1_string(v).value ELSE v.octets
        sans == SelectSeq(x.extensions, LAMBDA e : e.extnID = SUBJECT_ALT_NAME_OID)
    IN  IF ~sock.has_getpeercert THEN [exc |-> "AttributeError", kind |-> "None"]
        ELSE IF ~x.present THEN [exc |-> "", kind |-> "None"]
        ELSE IF ~sock.validated THEN [exc |-> "", kind |-> "empty"]
        ELSE [exc |-> "", kind |-> "dict",
              subject |-> [i \in 1..Len(x.subject) |->
                              [j \in 1..Len(x.subject[i]) |->
                                  << PeerCertAttribute(x.subject[i][j].type),
                                     octets(x.subject[i][j].value) >>]],
              hasSubjectAltName |-> sans # <<>>,
              subjectAltName |->
                  IF sans = <<>> THEN <<>>
                  ELSE [i \in 1..Len(sans[1].extnValue) |->
                           PeerCertGeneralName(sans[1].extnValue[i])],
              notAfter |-> x.validity.notAfter.text]

\* cls._cert_asn1_type after "if cls._cert_asn1_type is None: ... = Certificate()"
EnsureTemplate(template, id) ==
    IF template.kind = "None" THEN Certificate(id) ELSE template

\* from_ssl_socket taking every decoded certificate for a validated one
ASN1_from_ssl_socket_validated(sock, template) ==
    LET data   == getpeercert_binary(sock)
        decoded == from_der_data(data.value, template)
    IN  IF data.exc # "" \/ ~data.value.present THEN Return(CertificateData)
        ELSE IF decoded.exc # "" THEN decoded
        ELSE Return([decoded.value EXCEPT !.validated = TRUE])

\* ASN1CertificateData.from_ssl_socket(ssl_socket), decoding with template
ASN1_from_ssl_socket(sock, template) ==
    LET data   == getpeercert_binary(sock)
        decoded == from_der_data(data.value, template)
    IN  IF data.exc # "" \/ ~data.value.present THEN Return(CertificateData)
        ELSE IF decoded.exc # "" THEN decoded
        ELSE Return([decoded.value EXCEPT
                        !.validated = getpeercert(sock).kind = "dict"])

-----------------------------------------------------------------------------
(* BasicCertificateData: the fallback decoder *)

\* _decode_names, one part of the subject: a pair that is no UTF-8 is dropped
RECURSIVE decode_names_part(_, _, _)
decode_names_part(part, j, new_part) ==
    IF j > Len(part) THEN new_part
    ELSE LET value == DecodeUTF8(part[j][2])
         IN  IF value.exc # "" THEN decode_names_part(part, j + 1, new_part)
             ELSE decode_names_part(part, j + 1,
                      Append(new_part, <<part[j][1], value.value>>))

\* _decode_names, one list of alt_names
RECURSIVE decode_names_list(_, _, _)
decode_names_list(old, j, new) ==
    IF j > Len(old) THEN new
    ELSE LET name == DecodeUTF8(old[j])
         IN  IF name.exc # "" THEN decode_names_list(old, j + 1, new)
             ELSE decode_names_list(old, j + 1, Append(new, name.value))

\* the loop over data['subjectAltName']
RECURSIVE basic_alt_names(_, _, _)
basic_alt_names(d, pairs, i) ==
    IF i > Len(pairs) THEN d
    ELSE basic_alt_names(AppendTo(d, pairs[i][1], pairs[i][2]), pairs, i + 1)

\* the common names of a decoded subject, in the order of the subject
RECURSIVE basic_common_names(_, _, _, _)
basic_common_names(subject_name, i, j, cns) ==
    IF i > Len(subject_name) THEN cns
    ELSE IF j > Len(subject_name[i])
    THEN basic_common_names(subject_name, i + 1, 1, cns)
    ELSE basic_common_names(subject_name, i, j + 1,
             IF subject_name[i][j][1] = "commonName"
             THEN Append(cns, subject_name[i][j][2]) ELSE cns)

\* BasicCertificateData.from_ssl_socket(ssl_socket)
Basic_from_ssl_socket(sock) ==
    LET data == getpeercert(sock)
        alt_names == basic_alt_names(<<>>, data.subjectAltName, 1)
        subject_name == [i \in 1..Len(data.subject) |->
                            decode_names_part(data.subject[i], 1, <<>>)]
        decoded_alt == [k \in DOMAIN alt_names |->
                           decode_names_list(alt_names[k], 1, <<>>)]
    IN  IF data.exc # "" \/ data.kind # "dict" THEN Return(CertificateData)
        ELSE Return(WithFields(CertificateData, TRUE, List(subject_name),
                        [kind |-> "datetime", list |-> data.notAfter],
                        List(basic_common_names(subject_name, 1, 1, <<>>)),
                        decoded_alt))

-----------------------------------------------------------------------------
(* Inputs: the certificates and the call arguments *)

DNSNames == { <<"a">>, <<"A">>, <<"b">>, <<"@">> }
XmppAddrNames == { <<"u", "@", "a">>, <<"v", "@", "b">>, <<"a">>, <<"@">> }
SRVNames == { <<"_", "s", ".", "a">>, <<"_", "t", ".", "a">>,
              <<"_", "s", ".", "@">> }
CommonNames == { <<"a">>, <<"b">>, <<"@">>, <<"u", "@", "a">>, <<"a", "/", "r">> }

\* one list of a certificate, of size n: absent (size 0), present and empty
\* (size 1), or n names
Lists(pool, n) ==
    IF n = 0 THEN { [present |-> FALSE, list |-> <<>>] }
    ELSE { [present |-> TRUE, list |-> l] : l \in [1..n -> pool] }
         \cup (IF n = 1 THEN { [present |-> TRUE, list |-> <<>>] } ELSE {})

AltNames(dns, xmpp, srv) ==
    LET keys == (IF dns.present THEN {"DNS"} ELSE {})
                \cup (IF xmpp.present THEN {"XmppAddr"} ELSE {})
                \cup (IF srv.present THEN {"SRV"} ELSE {})
    IN  [k \in keys |-> CASE k = "DNS" -> dns.list
                          [] k = "XmppAddr" -> xmpp.list
                          [] k = "SRV" -> srv.list]

Sizes == { n \in [1..4 -> 0..MaxNames] : n[1] + n[2] + n[3] + n[4] <= MaxNames }

Certificates ==
    UNION { { [alt_names |-> AltNames(dns, xmpp, srv),
               common_names |-> IF cn.present THEN List(cn.list) ELSE None] :
                 dns \in Lists(DNSNames, n[1]), xmpp \in Lists(XmppAddrNames, n[2]),
                 srv \in Lists(SRVNames, n[3]), cn \in Lists(CommonNames, n[4]) } :
            n \in Sizes }

ServerNames == { <<"a">>, <<"b">> }
SrvTypes == { <<>>, <<"s">>, <<"t">> }
ClientJIDs == { NoneJID } \cup
              { SomeJID(JID(t).jid) : t \in { <<"u", "@", "a">>, <<"v", "@", "b">>, <<"a">> } }
DomainLists == { None, List(<<>>), List(<< <<"A">> >>), List(<< <<"b">> >>),
                 List(<< <<"A">>, <<"b">> >>), List(<< <<"b">>, <<"A">> >>) }

MaxItems == 2

\* the attributes of a Subject DN: a CommonName in UTF-8, one in UTF-16, an
\* OrganizationName, an attribute DN_OIDS does not know (emailAddress), and
\* a CommonName whose octets are no UTF-8
Attributes ==
    { [type |-> <<2, 5, 4, 3>>, value |-> [type |-> "UTF8String", octets |-> <<"a">>]],
      [type |-> <<2, 5, 4, 3>>, value |-> [type |-> "BMPString", octets |-> <<"x00", "b">>]],
      [type |-> <<2, 5, 4, 10>>, value |-> [type |-> "UTF8String", octets |-> <<"a">>]],
      [type |-> <<1, 2, 840, 113549, 1, 9, 1>>,
       value |-> [type |-> "IA5String", octets |-> <<"a">>]],
      [type |-> <<2, 5, 4, 3>>, value |-> [type |-> "UTF8String", octets |-> <<"xFF">>]] }

\* the GeneralNames of a SubjectAltName
GeneralName(name, type_id, octets) ==
    [name |-> name, type_id |-> type_id,
     value |-> [type |-> "IA5String", octets |-> octets]]

GeneralNames ==
    { GeneralName("dNSName", <<>>, <<"a">>),
      GeneralName("dNSName", <<>>, <<"xFF">>),
      GeneralName("uniformResourceIdentifier", <<>>, <<"x">>),
      GeneralName("otherName", XMPPADDR_OID, <<"u", "@", "a">>),
      GeneralName("otherName", SRVNAME_OID, <<"_", "s", ".", "a">>),
      GeneralName("otherName", <<1, 3, 6, 1, 5, 2, 2>>, <<"a">>),
      GeneralName("rfc822Name", <<>>, <<"a">>) }

\* the subjects of n attributes: every split of every sequence into RDNs
RECURSIVE Subjects(_)
Subjects(n) ==
    IF n = 0 THEN { <<>> }
    ELSE UNION { { <<first>> \o rest : first \in [1..k -> Attributes],
                                       rest \in Subjects(n - k) } : k \in 1..n }

\* the extensions with m GeneralNames: another extension (basicConstraints),
\* then the SubjectAltName if there is one
BASIC_CONSTRAINTS_OID == <<2, 5, 29, 19>>

Extensions(m) ==
    LET other == [extnID |-> BASIC_CONSTRAINTS_OID, extnValue |-> <<>>]
    IN  IF m = 0 THEN { <<>>, <<other>> }
        ELSE { <<other, [extnID |-> SUBJECT_ALT_NAME_OID, extnValue |-> gns]>> :
                   gns \in [1..m -> GeneralNames] }

\* notAfter: a UTCTime (years to 2049) or a GeneralizedTime (from 2050)
Validities ==
    { [notAfter |-> [type |-> "utcTime", text |-> <<"4", "9">>]],
      [notAfter |-> [type |-> "generalTime", text |-> <<"2", "0", "5", "0">>]] }

\* the certificates a peer can present: octets that are no DER certificate,
\* and the certificates of at most MaxItems attributes and GeneralNames
X509s ==
    { [present |-> TRUE, wellformed |-> FALSE, subject |-> <<>>,
       validity |-> [notAfter |-> [type |-> "utcTime", text |-> <<>>]],
       extensions |-> <<>>] }
    \cup UNION { { [present |-> TRUE, wellformed |-> TRUE, subject |-> s,
                    validity |-> v, extensions |-> e] :
                      s \in Subjects(nm[1]), v \in Validities,
                      e \in Extensions(nm[2]) } :
                 nm \in { p \in (0..MaxItems) \X (0..MaxItems) :
                              p[1] + p[2] <= MaxItems } }

SslSockets ==
    { [has_getpeercert |-> FALSE, x509 |-> NoX509, validated |-> FALSE],
      [has_getpeercert |-> TRUE, x509 |-> NoX509, validated |-> FALSE] }
    \cup { [has_getpeercert |-> TRUE, x509 |-> x, validated |-> v] :
               x \in X509s, v \in BOOLEAN }

SessionServerNames == ServerNames \cup { <<"@">> }

-----------------------------------------------------------------------------
(* The calls on one certificate *)

NoCall == [op |-> "none"]

\* no TLS session, and a certificate that is given decoded
NoSocket == [has_getpeercert |-> FALSE, x509 |-> NoX509, validated |-> FALSE]
Given == [cls |-> "CertificateData", exc |-> ""]
NotDecoded == [cls |-> "", exc |-> ""]

\* a decoder has returned a certificate
Decoded == decoding.cls # "" /\ decoding.exc = ""

Init ==
    /\ cert \in Certificates
    /\ call = NoCall
    /\ result = Return(FALSE)
    /\ ssl_socket = NoSocket
    /\ decoding = Given
    /\ cert_asn1_type = NoTemplate
    /\ threads = <<>>

GetJids ==
    /\ Decoded
    /\ call = NoCall
    /\ call' = [op |-> "get_jids"]
    /\ result' = get_jids(cert)
    /\ UNCHANGED <<cert, ssl_socket, decoding, cert_asn1_type, threads>>

VerifyServer(server_name, srv_type) ==
    /\ Decoded
    /\ call = NoCall
    /\ call' = [op |-> "verify_server", server_name |-> server_name,
                srv_type |-> srv_type]
    /\ result' = verify_server(cert, server_name, srv_type)
    /\ UNCHANGED <<cert, ssl_socket, decoding, cert_asn1_type, threads>>

VerifyClient(client_jid, domains) ==
    /\ Decoded
    /\ call = NoCall
    /\ call' = [op |-> "verify_client", client_jid |-> client_jid,
                domains |-> domains]
    /\ result' = verify_client(cert, client_jid, domains)
    /\ UNCHANGED <<cert, ssl_socket, decoding, cert_asn1_type, threads>>

Next ==
    \/ GetJids
    \/ \E server_name \in ServerNames, srv_type \in SrvTypes :
           VerifyServer(server_name, srv_type)
    \/ \E client_jid \in ClientJIDs, domains \in DomainLists :
           VerifyClient(client_jid, domains)

Spec == Init /\ [][Next]_vars

-----------------------------------------------------------------------------
(* Decoding the certificate of a TLS session or of a file, then the calls *)

InitDecode ==
    /\ ssl_socket \in SslSockets
    /\ cert = CertificateData
    /\ call = NoCall
    /\ result = Return(FALSE)
    /\ decoding = NotDecoded
    /\ cert_asn1_type = NoTemplate
    /\ threads = <<>>

\* a decoder call has ended: with a certificate, or with an exception and
\* then without one
Decode(cls, out) ==
    /\ decoding' = [cls |-> cls, exc |-> out.exc]
    /\ cert' = IF out.exc = "" THEN out.value ELSE cert

\* get_certificate_from_ssl_socket(ssl_socket) with pyasn1
ASN1FromSslSocket ==
    /\ decoding = NotDecoded
    /\ Decode("ASN1CertificateData",
              ASN1_from_ssl_socket(ssl_socket, EnsureTemplate(cert_asn1_type, 1)))
    /\ cert_asn1_type' = IF getpeercert_binary(ssl_socket).exc = ""
                            /\ ssl_socket.x509.present
                         THEN EnsureTemplate(cert_asn1_type, 1)
                         ELSE cert_asn1_type
    /\ UNCHANGED <<call, result, ssl_socket, threads>>

\* get_certificate_from_ssl_socket(ssl_socket) without pyasn1
BasicFromSslSocket ==
    /\ decoding = NotDecoded
    /\ Decode("BasicCertificateData", Basic_from_ssl_socket(ssl_socket))
    /\ UNCHANGED <<call, result, ssl_socket, cert_asn1_type, threads>>

\* get_certificate_from_file(filename), the file holding the certificate
FromFile ==
    /\ decoding = NotDecoded
    /\ ssl_socket.x509.present
    /\ Decode("ASN1CertificateData.from_file",
              from_der_data(ssl_socket.x509, EnsureTemplate(cert_asn1_type, 1)))
    /\ cert_asn1_type' = EnsureTemplate(cert_asn1_type, 1)
    /\ UNCHANGED <<call, result, ssl_socket, threads>>

NextDecode ==
    \/ ASN1FromSslSocket
    \/ BasicFromSslSocket
    \/ FromFile
    \/ GetJids
    \/ \E server_name \in SessionServerNames, srv_type \in SrvTypes :
           VerifyServer(server_name, srv_type)
    \/ \E client_jid \in ClientJIDs, domains \in DomainLists :
           VerifyClient(client_jid, domains)

SpecDecode == InitDecode /\ [][NextDecode]_vars

-----------------------------------------------------------------------------
(* Vocabulary of the properties *)

\* the JIDs of the strings of a list that parse
ParsedJIDs(names) ==
    { JID(names[i]).jid : i \in { k \in 1..Len(names) : JID(names[k]).ok } }

\* the JIDs of the DNS and XmppAddr alt-names
AltNameJIDs(c) ==
    ParsedJIDs(Get(c.alt_names, "DNS")) \cup ParsedJIDs(Get(c.alt_names, "XmppAddr"))

\* the JIDs of the SRV alt-names that carry the prefix "_<srv_type>."
SrvNameJIDs(c, srv_type) ==
    LET prefix == <<"_">> \o srv_type \o <<".">>
        srvs   == Get(c.alt_names, "SRV")
        rest   == [i \in 1..Len(srvs) |->
                      IF StartsWith(srvs[i], prefix)
                      THEN SliceFrom(srvs[i], Len(prefix)) ELSE <<>>]
    IN  ParsedJIDs(rest)

CommonNameJIDs(c) ==
    IF c.common_names.kind = "None" THEN {} ELSE ParsedJIDs(c.common_names.list)

\* no category among the given ones holds a name
NoNames(c, categories) == \A k \in categories : Get(c.alt_names, k) = <<>>

\* no category among the given ones is a key of alt_names
NoCategory(c, categories) == \A k \in categories : k \notin DOMAIN c.alt_names

ServerCall == call.op = "verify_server"
ServerJID == JID(call.server_name).jid
Returned(v) == result.exc = "" /\ result.value = v

-----------------------------------------------------------------------------
(* verify_server *)

\* C1: verify_server returns True only if the JID of server_name equals the
\* JID of an entry the certificate lists for it: a DNS or XmppAddr alt-name,
\* an SRV alt-name with "_<srv_type>." stripped, or, only when none of those
\* categories holds a name, a common name.
C1_FailClosed ==
    (ServerCall /\ Returned(TRUE)) =>
        \/ ServerJID \in AltNameJIDs(cert)
        \/ ServerJID \in SrvNameJIDs(cert, call.srv_type)
        \/ /\ NoNames(cert, {"DNS", "XmppAddr", "SRV"})
           /\ ServerJID \in CommonNameJIDs(cert)

\* the service type a call without srv_type uses ('xmpp-client')
DefaultSrvType == <<"s">>

\* what C2 states of the certificate and the requested name
C2_Accepted(c, jid, categories) ==
    \/ jid \in AltNameJIDs(c)
    \/ categories /\ jid \in CommonNameJIDs(c)

C3_SrvAccepted ==
    (/\ ServerCall /\ call.srv_type # <<>>
     /\ ServerJID \notin AltNameJIDs(cert)
     /\ ServerJID \in SrvNameJIDs(cert, call.srv_type))
        => Returned(TRUE)

\* C4: verify_server never raises because of the certificate's contents.
C4_NeverRaises == ServerCall => result.exc = ""

-----------------------------------------------------------------------------
(* verify_client *)

ClientCall == call.op = "verify_client"

\* the candidates of verify_client: the JIDs of get_jids with a local part
Candidates(c) == SelectSeq(get_jids(c).value, LAMBDA jid : jid.local # <<>>)

\* client_jid is given and is one of the candidates
Selected(c, client_jid) ==
    client_jid.kind = "JID" /\ InSeq(client_jid.jid, Candidates(c))

\* the domain of jid equals an entry of domains, case-insensitively
DomainListed(jid, domains) ==
    \E k \in 1..Len(domains) : LowerStr(jid.domain) = LowerStr(domains[k])

\* the position in jids of the first JID whose domain is listed (0 if none)
FirstListed(jids, domains) ==
    IF \E i \in 1..Len(jids) : DomainListed(jids[i], domains)
    THEN CHOOSE i \in 1..Len(jids) :
             /\ DomainListed(jids[i], domains)
             /\ \A j \in 1..(i - 1) : ~DomainListed(jids[j], domains)
    ELSE 0

\* C5: a client_jid that is among the certificate's JIDs and has a local part
\* is returned itself, whatever its position and whatever domains is.
C5_ExplicitIdentityFirst ==
    (/\ ClientCall /\ call.client_jid.kind = "JID"
     /\ call.client_jid.jid.local # <<>>
     /\ InSeq(call.client_jid.jid, get_jids(cert).value))
        => Returned(call.client_jid)

\* the requested JID is returned although it is not the first candidate and
\* its domain is not in domains, while the first candidate's domain is
C5_Witness ==
    /\ ClientCall /\ call.client_jid.kind = "JID"
    /\ Len(Candidates(cert)) >= 2
    /\ Candidates(cert)[1] # call.client_jid.jid
    /\ InSeq(call.client_jid.jid, Candidates(cert))
    /\ call.domains.kind = "list"
    /\ ~DomainListed(call.client_jid.jid, call.domains.list)
    /\ DomainListed(Candidates(cert)[1], call.domains.list)
    /\ Returned(call.client_jid)

C7_FirstCandidate ==
    (/\ ClientCall /\ call.domains.kind = "None"
     /\ ~Selected(cert, call.client_jid)
     /\ \E i \in 1..Len(get_jids(cert).value) : get_jids(cert).value[i].local # <<>>)
        => LET jids == get_jids(cert).value
               i == CHOOSE k \in 1..Len(jids) :
                        /\ jids[k].local # <<>>
                        /\ \A j \in 1..(k - 1) : jids[j].local = <<>>
           IN  Returned(SomeJID(jids[i]))

\* a requested JID that is no candidate, two candidates: the first is returned
C7_Witness ==
    /\ ClientCall /\ call.domains.kind = "None"
    /\ call.client_jid.kind = "JID" /\ ~Selected(cert, call.client_jid)
    /\ Len(Candidates(cert)) >= 2
    /\ Returned(SomeJID(Candidates(cert)[1]))

\* C8: verify_client never returns a JID without a local part, and returns a
\* false result when get_jids has no JID with a local part.
C8_OnlyLocalPart ==
    ClientCall =>
        /\ result.exc = ""
        /\ result.value.kind = "JID" => result.value.jid.local # <<>>
        /\ (\A i \in 1..Len(get_jids(cert).value) :
                get_jids(cert).value[i].local = <<>>)
               => result.value.kind \in {"False", "None"}

\* the certificate names the requested bare domain, which is in domains too
C8_Witness ==
    /\ ClientCall /\ call.client_jid.kind = "JID"
    /\ call.client_jid.jid.local = <<>>
    /\ InSeq(call.client_jid.jid, get_jids(cert).value)
    /\ call.domains.kind = "list"
    /\ DomainListed(call.client_jid.jid, call.domains.list)
    /\ Returned(FalseJID)

-----------------------------------------------------------------------------
(* get_jids *)

JidsCall == call.op = "get_jids"

\* the position in addrs of the first string whose JID is jid (0 if none)
FirstSeen(addrs, jid) ==
    IF \E k \in 1..Len(addrs) : JID(addrs[k]).ok /\ JID(addrs[k]).jid = jid
    THEN CHOOSE k \in 1..Len(addrs) :
             /\ JID(addrs[k]).ok /\ JID(addrs[k]).jid = jid
             /\ \A j \in 1..(k - 1) : ~(JID(addrs[j]).ok /\ JID(addrs[j]).jid = jid)
    ELSE 0

\* C9: the list of get_jids holds no JID twice, and its JIDs stand in the
\* order of their first occurrence among the candidate strings.
C9_UniqueFirstSeen ==
    JidsCall =>
        LET jids  == result.value
            addrs == get_jids_addrs(cert)
        IN  /\ \A i, j \in 1..Len(jids) : i # j => jids[i] # jids[j]
            /\ \A i \in 1..Len(jids) : FirstSeen(addrs, jids[i]) # 0
            /\ \A i, j \in 1..Len(jids) :
                   i < j => FirstSeen(addrs, jids[i]) < FirstSeen(addrs, jids[j])

\* two different strings of the same JID, followed by another JID
C9_Witness ==
    /\ JidsCall
    /\ LET addrs == get_jids_addrs(cert)
       IN  /\ Len(addrs) = 3
           /\ addrs[1] # addrs[2]
           /\ JID(addrs[1]).ok /\ JID(addrs[2]).ok /\ JID(addrs[3]).ok
           /\ JID(addrs[1]).jid = JID(addrs[2]).jid
           /\ JID(addrs[3]).jid # JID(addrs[1]).jid
           /\ result.value = << JID(addrs[1]).jid, JID(addrs[3]).jid >>

\* C10: get_jids does not raise on a string that is no JID, and returns the
\* JID of every candidate string that parses, before or after such a string.
C10_MalformedSkipped ==
    JidsCall =>
        LET addrs == get_jids_addrs(cert)
        IN  /\ result.exc = ""
            /\ \A k \in 1..Len(addrs) :
                   JID(addrs[k]).ok => InSeq(JID(addrs[k]).jid, result.value)
            /\ Len(result.value) <= Cardinality(ParsedJIDs(addrs))

\* a malformed string between two well-formed ones
C10_Witness ==
    /\ JidsCall
    /\ LET addrs == get_jids_addrs(cert)
       IN  /\ Len(addrs) = 3
           /\ JID(addrs[1]).ok /\ ~JID(addrs[2]).ok /\ JID(addrs[3]).ok
           /\ result = Return(<< JID(addrs[1]).jid, JID(addrs[3]).jid >>)

\* the set of the JIDs of a list of JIDs
JIDSet(jids) == { jids[i] : i \in 1..Len(jids) }

\* C11: with an XmppAddr or DNS entry in alt_names the JIDs of get_jids are
\* those of the XmppAddr names followed by those of the DNS names, and no
\* common name is used; otherwise they are those of the common names that
\* hold neither "@" nor "/"; otherwise there is none.
C11_CandidateSelection ==
    JidsCall =>
        LET jids == result.value
            xmpp == ParsedJIDs(Get(cert.alt_names, "XmppAddr"))
            dns  == ParsedJIDs(Get(cert.alt_names, "DNS"))
            cns  == IF cert.common_names.kind = "None" THEN <<>>
                    ELSE cert.common_names.list
            plain == { k \in 1..Len(cns) : \A i \in 1..Len(cns[k]) :
                                               cns[k][i] \notin {"@", "/"} }
        IN  /\ result.exc = ""
            /\ IF {"XmppAddr", "DNS"} \cap DOMAIN cert.alt_names # {}
               THEN /\ JIDSet(jids) = xmpp \cup dns
                    /\ \A i, j \in 1..Len(jids) :
                           (jids[i] \in dns \ xmpp /\ jids[j] \in xmpp) => j < i
               ELSE JIDSet(jids) = { JID(cns[k]).jid : k \in { n \in plain : JID(cns[n]).ok } }

\* an XmppAddr name, a DNS name and a common name of three different JIDs
C11_Witness ==
    /\ JidsCall
    /\ Len(Get(cert.alt_names, "XmppAddr")) = 1
    /\ Len(Get(cert.alt_names, "DNS")) = 1
    /\ Truthy(cert.common_names)
    /\ ~Contains(cert.common_names.list[1], "@")
    /\ ~Contains(cert.common_names.list[1], "/")
    /\ JID(cert.common_names.list[1]).ok
    /\ JID(cert.common_names.list[1]).jid \notin AltNameJIDs(cert)
    /\ Len(result.value) = 2
    /\ result.value[1] = JID(cert.alt_names["XmppAddr"][1]).jid
    /\ result.value[2] = JID(cert.alt_names["DNS"][1]).jid

-----------------------------------------------------------------------------
(* The decoders *)

FromSocket == decoding.cls \in {"ASN1CertificateData", "BasicCertificateData"}
FullDecoder == decoding.cls \in {"ASN1CertificateData", "ASN1CertificateData.from_file"}
Raised == decoding.cls # "" /\ decoding.exc # ""

\* C12: a decoded certificate has validated = true only if it comes from a
\* TLS session whose library reports the peer certificate as validated; octets
\* that are no certificate make the full decoder raise, and a decoder call
\* that raises yields no CertificateData, so that neither an unparsable
\* certificate nor a session without certificate is ever validated.
C12_ValidatedOnlyByTLS ==
    /\ (Decoded /\ cert.validated) =>
           /\ FromSocket
           /\ ssl_socket.has_getpeercert
           /\ ssl_socket.x509.present
           /\ ssl_socket.validated
    /\ (FullDecoder /\ ssl_socket.x509.present /\ ~ssl_socket.x509.wellformed) =>
           Raised
    /\ Raised => (cert = CertificateData /\ ~cert.validated /\ call = NoCall)

C12_Witness ==
    /\ Decoded
    /\ decoding.cls = "ASN1CertificateData"
    /\ cert.validated
    /\ ssl_socket.validated

\* the TLS session presented no certificate
NoCertificate == ~ssl_socket.has_getpeercert \/ ~ssl_socket.x509.present

\* C13: when the TLS session presents no certificate, both decoders return
\* the default CertificateData (validated false, subject_name and
\* common_names None, alt_names empty); on it get_jids returns [],
\* verify_server returns False for every server name and verify_client
\* returns a falsy value, and none of the three raises.
C13_NoCertificate ==
    (FromSocket /\ NoCertificate) =>
        /\ Decoded
        /\ cert = CertificateData
        /\ call.op = "get_jids" => Returned(<<>>)
        /\ call.op = "verify_server" => Returned(FALSE)
        /\ call.op = "verify_client" =>
               (result.exc = "" /\ result.value.kind \in {"None", "False"})

\* the GeneralNames of the SubjectAltName extensions of a certificate
RECURSIVE SubjectAltNames(_, _)
SubjectAltNames(extensions, i) ==
    IF i > Len(extensions) THEN <<>>
    ELSE (IF extensions[i].extnID = SUBJECT_ALT_NAME_OID
          THEN extensions[i].extnValue ELSE <<>>)
         \o SubjectAltNames(extensions, i + 1)

\* the attributes of a subject, RDN after RDN
RECURSIVE SubjectAttributes(_, _)
SubjectAttributes(subject, i) ==
    IF i > Len(subject) THEN <<>>
    ELSE subject[i] \o SubjectAttributes(subject, i + 1)

\* a value of the Subject DN, or of an interpreted GeneralName, whose text
\* cannot be decoded
UndecodableSubjectValue(x) ==
    \E a \in { SubjectAttributes(x.subject, 1)[i] :
                   i \in 1..Len(SubjectAttributes(x.subject, 1)) } :
        a.type \in DOMAIN DN_OIDS /\ decode_asn1_string(a.value).exc # ""

UndecodableAltNameValue(x) ==
    \E g \in { SubjectAltNames(x.extensions, 1)[i] :
                   i \in 1..Len(SubjectAltNames(x.extensions, 1)) } :
        /\ \/ g.name \in {"dNSName", "uniformResourceIdentifier"}
           \/ g.name = "otherName" /\ g.type_id \in {XMPPADDR_OID, SRVNAME_OID}
        /\ decode_asn1_string(g.value).exc # ""

\* the certificate is one the DER decoder and _decode_validity accept
Decodable(x) ==
    x.present /\ x.wellformed /\ x.validity.notAfter.type = "utcTime"

\* C14: when the text of one Subject DN value or of one SubjectAltName value
\* cannot be decoded, the full decoder drops that value and still returns a
\* CertificateData: the encoding error does not leave the decode call.
C14_FieldErrorRecovered ==
    (/\ FullDecoder
     /\ Decodable(ssl_socket.x509)
     /\ UndecodableSubjectValue(ssl_socket.x509)
            \/ UndecodableAltNameValue(ssl_socket.x509)) =>
        Decoded

\* the category _decode_alt_names files a GeneralName under, "" for the
\* GeneralNames it does not interpret
Category(g) ==
    CASE g.name = "dNSName" -> "DNS"
      [] g.name = "uniformResourceIdentifier" -> "URI"
      [] g.name = "otherName" /\ g.type_id = XMPPADDR_OID -> "XmppAddr"
      [] g.name = "otherName" /\ g.type_id = SRVNAME_OID -> "SRVName"
      [] OTHER -> ""

\* the texts of the GeneralNames of one category, in the order of the extension
Interpreted(x, category) ==
    LET of_category == SelectSeq(SubjectAltNames(x.extensions, 1),
                                 LAMBDA g : Category(g) = category)
    IN  [i \in 1..Len(of_category) |-> DecodeUTF8(of_category[i].value.octets).value]

Recognized(attributes) ==
    LET kept == SelectSeq(attributes,
                    LAMBDA a : a.type \in DOMAIN DN_OIDS
                               /\ decode_asn1_string(a.value).exc = "")
    IN  [i \in 1..Len(kept) |->
            <<DN_OIDS[kept[i].type], decode_asn1_string(kept[i].value).value>>]

\* the texts of the CommonName pairs of a sequence of pairs
CommonNamesOf(pairs) ==
    LET cns == SelectSeq(pairs, LAMBDA p : p[1] = "CommonName")
    IN  [i \in 1..Len(cns) |-> cns[i][2]]

\* C16: the full decoder keeps, RDN by RDN, the pairs of the Subject DN whose
\* attribute OID is recognized (and whose text decodes) in their original
\* order, omits the unrecognized ones without dropping the RDN or failing the
\* decode, and sets common_names to the CommonName values in encounter order.
C16_SubjectDecoded ==
    /\ (Decoded /\ FullDecoder /\ ~NoCertificate) =>
           /\ cert.subject_name.kind = "list"
           /\ Len(cert.subject_name.list) = Len(ssl_socket.x509.subject)
           /\ \A i \in 1..Len(ssl_socket.x509.subject) :
                  cert.subject_name.list[i] = Recognized(ssl_socket.x509.subject[i])
           /\ cert.common_names =
                  List(CommonNamesOf(Recognized(
                           SubjectAttributes(ssl_socket.x509.subject, 1))))
    /\ (/\ FullDecoder
        /\ Decodable(ssl_socket.x509)
        /\ ssl_socket.x509.extensions = <<>>) => Decoded

\* an RDN of an unrecognized and a recognized attribute has been decoded
C16_Witness ==
    /\ Decoded /\ FullDecoder
    /\ Len(ssl_socket.x509.subject) = 1
    /\ Len(ssl_socket.x509.subject[1]) = 2
    /\ ssl_socket.x509.subject[1][1].type \notin DOMAIN DN_OIDS
    /\ cert.subject_name.list = << << <<"CommonName", <<"a">> >> >> >>
    /\ cert.common_names.list = << <<"a">> >>

\* the JIDs of the decoded SRVName entries that carry the prefix "_<srv_type>."
DecodedSrvNameJIDs(c, srv_type) ==
    LET prefix == <<"_">> \o srv_type \o <<".">>
        srvs   == Get(c.alt_names, "SRVName")
        rest   == [i \in 1..Len(srvs) |->
                      IF StartsWith(srvs[i], prefix)
                      THEN SliceFrom(srvs[i], Len(prefix)) ELSE <<>>]
    IN  ParsedJIDs(rest)

\* C18: the category the full decoder files SRVName entries under is the one
\* verify_server consults: a decoded certificate with the SRVName
\* "_<srv_type>.<domain>" is accepted by verify_server(<domain>, <srv_type>),
\* and a certificate with an SRVName entry is never accepted through the
\* CommonName fallback.
C18_SrvNameConsulted ==
    (/\ Decoded /\ FullDecoder
     /\ ServerCall /\ JID(call.server_name).ok
     /\ "SRVName" \in DOMAIN cert.alt_names) =>
        /\ (/\ call.srv_type # <<>>
            /\ ServerJID \in DecodedSrvNameJIDs(cert, call.srv_type)) =>
               Returned(TRUE)
        /\ Returned(TRUE) =>
               ServerJID \in AltNameJIDs(cert)
                             \cup DecodedSrvNameJIDs(cert, call.srv_type)

-----------------------------------------------------------------------------
(* Concurrent from_der_data calls and the class attribute _cert_asn1_type *)

NumThreads == 2
Threads == 1..NumThreads

\* the octets the concurrent calls decode: octets that are no certificate,
\* and certificates with an empty Subject DN or with one CommonName
DERData ==
    { x \in X509s : ~x.wellformed }
    \cup { [present |-> TRUE, wellformed |-> TRUE, subject |-> s,
            validity |-> v, extensions |-> <<>>] :
               s \in { <<>> } \cup { << <<a>> >> :
                           a \in { b \in Attributes : b.value.type = "BMPString" } },
               v \in Validities }

\* a Certificate() whose constructor has not returned yet
Partial(id) == [kind |-> "Partial", id |-> id]

InitRace ==
    /\ cert = CertificateData
    /\ call = NoCall
    /\ result = Return(FALSE)
    /\ ssl_socket = NoSocket
    /\ decoding = NotDecoded
    /\ cert_asn1_type = NoTemplate
    /\ threads \in [Threads -> { [pc |-> "check", data |-> d, seen |-> NoTemplate,
                                  built |-> NoTemplate, asn1Spec |-> NoTemplate,
                                  result |-> Return(CertificateData)] :
                                     d \in DERData }]

Shared == <<cert, call, result, ssl_socket, decoding>>

\* "if cls._cert_asn1_type is None:"
CheckTemplate(t) ==
    /\ threads[t].pc = "check"
    /\ threads' = [threads EXCEPT ![t].seen = cert_asn1_type,
                                  ![t].pc = IF cert_asn1_type.kind = "None"
                                            THEN "construct" ELSE "decode"]
    /\ UNCHANGED <<cert_asn1_type, Shared>>

\* "Certificate()": the constructor runs on an object only this thread holds
ConstructTemplate(t) ==
    /\ threads[t].pc = "construct"
    /\ threads' = [threads EXCEPT ![t].built = Partial(t), ![t].pc = "constructed"]
    /\ UNCHANGED <<cert_asn1_type, Shared>>

ReturnTemplate(t) ==
    /\ threads[t].pc = "constructed"
    /\ threads' = [threads EXCEPT ![t].built = Certificate(t), ![t].pc = "assign"]
    /\ UNCHANGED <<cert_asn1_type, Shared>>

\* "cls._cert_asn1_type = ..."
AssignTemplate(t) ==
    /\ threads[t].pc = "assign"
    /\ cert_asn1_type' = threads[t].built
    /\ threads' = [threads EXCEPT ![t].pc = "decode"]
    /\ UNCHANGED Shared

\* a thread reading the value it saw when it tested the attribute
TemplateRead_seen(t) == threads[t].seen

\* "asn1Spec = cls._cert_asn1_type": the attribute is read again for the call
TemplateRead(t) == cert_asn1_type

\* the rest of from_der_data works on the objects of the call only
DecodeDer(t) ==
    /\ threads[t].pc = "decode"
    /\ threads' = [threads EXCEPT
                      ![t].asn1Spec = TemplateRead(t),
                      ![t].result = from_der_data(threads[t].data, TemplateRead(t)),
                      ![t].pc = "done"]
    /\ UNCHANGED <<cert_asn1_type, Shared>>

NextRace ==
    \E t \in Threads :
        \/ CheckTemplate(t)
        \/ ConstructTemplate(t)
        \/ ReturnTemplate(t)
        \/ AssignTemplate(t)
        \/ DecodeDer(t)

SpecRace == InitRace /\ [][NextRace]_vars

\* C17: under every interleaving of concurrent from_der_data calls the class
\* attribute is None or a fully built template that one of the calls built,
\* each call decodes with a fully built template, and each call's result is
\* the one a sequential call returns for the same octets.
C17_HarmlessRace ==
    /\ cert_asn1_type.kind \in {"None", "Certificate"}
    /\ cert_asn1_type.kind = "Certificate" =>
           \E t \in Threads : threads[t].built = cert_asn1_type
    /\ \A t \in Threads :
           threads[t].pc = "done" =>
               /\ threads[t].asn1Spec.kind = "Certificate"
               /\ threads[t].result =
                      from_der_data(threads[t].data, EnsureTemplate(NoTemplate, 0))

\* two calls have both built a template, the later assignment has replaced
\* the earlier one, and both calls are done
C17_Witness ==
    /\ \A t \in Threads : threads[t].pc = "done"
    /\ \E t, u \in Threads :
           /\ t # u
           /\ threads[t].built.kind = "Certificate"
           /\ threads[u].built.kind = "Certificate"
           /\ threads[t].asn1Spec # threads[t].built
           /\ threads[t].result.exc = ""

====
